---------------------------- MODULE Spec2Model ----------------------------
(***************************************************************************)
(* The bot execution engine of the trading platform:                       *)
(*   - the bot registry (useTradingBotStore: createBot, startBot, stopBot, *)
(*     updateBotPerformance, startTraining),                               *)
(*   - the strategy executor (startStrategyExecutor: one setInterval timer *)
(*     and one closure per successful startBot),                           *)
(*   - the ledger (useTradingMode: mode, balance, updateBalance),          *)
(*   - the market-data store (useWebSocketStore: isConnected, price).      *)
(*                                                                         *)
(* Zustand stores replace their state object on every set(); getState()    *)
(* therefore returns a snapshot.  The closures of startBot and of          *)
(* startStrategyExecutor keep the snapshots (and the registry object) they *)
(* read when they were created, and the model keeps them the same way: in  *)
(* the record of the executor.                                             *)
(*                                                                         *)
(* Date.now() is not modelled as a number.  The two comparisons the code   *)
(* makes with it are kept as the booleans they compute: `spaced` (more     *)
(* than 60000 ms since lastTradeTime) and `due` (updateInterval elapsed    *)
(* since the multi-coin strategy's lastUpdate); time stamps stored in      *)
(* records (lastUpdate, trade.time, startTime's value) are left out.       *)
(* winRate is kept in hundredths of a percent.                             *)
(***************************************************************************)
EXTENDS Integers, Sequences, FiniteSets, TLC

\* ------------------------------------------------------------------ bounds
NumBots == 1          \* bots that createBot may create
MaxExec == 2          \* executors (successful startBot calls) in one run
MaxInFlight == 2      \* ticks of one executor suspended in analyze at once
MaxTraining == 1      \* startTraining calls of one bot awaiting their timeout
MaxWaitingExec == 0   \* a startBot call enters its wait loops while at most this many executors exist
MaxSwitches == 2      \* setMode calls that change the mode
MaxExecWide == 3      \* executors in one run of SpecWide
MaxLedger == 2        \* SpecLedger: a balance stays at its initial value or within 0..MaxLedger
MaxClosed == 4        \* SpecPure: closed trades in one chain of calculateWinRate calls
MaxKlines == 3        \* SpecPure: klines in a snapshot (besides the five of the spec's example)
MaxPeriod == 4        \* SpecPure: fastPeriod and slowPeriod are within 1..MaxPeriod

\* ------------------------------------------------------- program constants
ErrorThreshold == 5               \* consecutiveErrors >= 5
TradesCap == 100                  \* .slice(0, 100)
DEFAULT_DEMO_BALANCE == 100000
MinTradeAmount == 1               \* tradeAmount >= 1

\* ------------------------------------------------------------ value domains
Bots == 1..NumBots
Execs == 1..MaxExec
Modes == {"demo", "live"}
Symbols == {"BTC/USDT", "ETH/USDT"}
Currencies == {"USDT", "BTC", "ETH"}
Prices == {2}
Strategies == {"ml_trend", "multi_coin"}
Signals == {"none", "buy", "sell"}
Statuses == {"stopped", "running", "error", "training"}

\* symbol.split('/')[0]
baseCurrency(symbol) == IF symbol = "BTC/USDT" THEN "BTC" ELSE "ETH"

Min(a, b) == IF a <= b THEN a ELSE b
Max(a, b) == IF a >= b THEN a ELSE b

VARIABLES
  bots,         \* useTradingBotStore.bots: id -> TradingBot, NoBot if not created
  exec,         \* the closures created by startStrategyExecutor, in creation order
  training,     \* per bot: startTraining calls awaiting the 15 s timeout
  mode,         \* useTradingMode.mode
  balance,      \* useTradingMode.balance: mode -> currency -> amount
  wsConnected,  \* useWebSocketStore.isConnected
  wsPrice,      \* useWebSocketStore.marketData.price (0: none yet)
  starting,     \* per bot: the startBot call suspended in a pre-flight wait loop
  switches,     \* history: setMode calls that changed the mode so far
  execCap,      \* bound: the executors the startBot calls of this run may create
  call,         \* a call of one of the pure functions: its arguments and its result
  last          \* history: the handler that ran last and how it ended

vars == <<bots, exec, training, mode, balance, wsConnected, wsPrice, starting, switches,
          execCap, call, last>>

\* ------------------------------------------------------------ pure helpers

\* calculateWinRate with Math.floor in place of Math.round
calculateWinRateFloored(currentWinRate, totalTrades, isWin) ==
  (currentWinRate * totalTrades + (IF isWin THEN 10000 ELSE 0)) \div (totalTrades + 1)

\* calculateWinRate: Math.round(((w * n + (isWin ? 100 : 0)) / (n + 1)) * 100) / 100,
\* with w and the result in hundredths of a percent.
calculateWinRate(currentWinRate, totalTrades, isWin) ==
  LET num == currentWinRate * totalTrades + (IF isWin THEN 10000 ELSE 0)
      den == totalTrades + 1
  IN  (2 * num + den) \div (2 * den)

\* calculateTradeAmount.  availableBalance / currentPrice is a real division in
\* the code; on the domains above (Prices, SizeCaps) the quotient is either
\* below 1, or not below the other argument of Math.min, or a whole number, so
\* the integer quotient gives the same result wherever the result is used.
calculateTradeAmount(maxPositionSize, currentPrice, availableBalance) ==
  LET maxAmount == availableBalance \div currentPrice
  IN  IF maxPositionSize < currentPrice
        THEN Min(1, maxAmount)
        ELSE Min(maxPositionSize \div currentPrice, maxAmount)

\* Quotients of the code's real arithmetic, as fractions with a positive den
Whole(n) == [num |-> n, den |-> 1]
LessEqQ(x, y) == x.num * y.den <= y.num * x.den
EqualQ(x, y) == x.num * y.den = y.num * x.den
\* Math.min
MinQ(x, y) == IF LessEqQ(x, y) THEN x ELSE y

\* calculateTradeAmount with no upper limit from maxPositionSize
calculateTradeAmountUncapped(maxPositionSize, currentPrice, availableBalance) ==
  [num |-> availableBalance, den |-> currentPrice]

\* calculateTradeAmount with the quotient availableBalance / currentPrice kept
\* exact.  The result does not change when the three arguments are multiplied
\* by one factor, so whole arguments stand for all rational ones.
calculateTradeAmountExact(maxPositionSize, currentPrice, availableBalance) ==
  LET maxAmount == [num |-> availableBalance, den |-> currentPrice]
  IN  IF maxPositionSize < currentPrice
        THEN MinQ(Whole(1), maxAmount)
        ELSE MinQ(Whole(maxPositionSize \div currentPrice), maxAmount)

\* ------------------------------------------------------------ the strategies
\* marketData = [hasPrice, price, isArray, klines]: hasPrice is FALSE when the
\* price is undefined, isArray is Array.isArray(klines), klines holds the
\* close of every kline.

\* BaseStrategy.validateData: TRUE when it throws
validateData(marketData) ==
  ~marketData.hasPrice \/ marketData.price = 0 \/ ~marketData.isArray

\* Array.prototype.slice(-n): the last n elements; the whole array when n is 0
\* or not below the length
sliceLast(seq, n) ==
  IF n = 0 \/ n >= Len(seq) THEN seq ELSE SubSeq(seq, Len(seq) - n + 1, Len(seq))

\* reduce((sum, price) => sum + price, 0)
RECURSIVE sum(_)
sum(seq) == IF seq = <<>> THEN 0 ELSE Head(seq) + sum(Tail(seq))

\* MACrossStrategy.calculateMA, period > 0
calculateMA(prices, period) ==
  [num |-> sum(sliceLast(prices, period)), den |-> period]

\* MACrossStrategy.analyze: "throws", or the signal ("none" for null)
MACrossAnalyze(parameters, marketData) ==
  IF validateData(marketData)
    THEN "throws"
    ELSE IF Len(marketData.klines) < parameters.slowPeriod
           THEN "none"
           ELSE LET fastMA == calculateMA(marketData.klines, parameters.fastPeriod)
                    slowMA == calculateMA(marketData.klines, parameters.slowPeriod)
                IN  IF ~LessEqQ(fastMA, slowMA)
                      THEN "buy"
                      ELSE IF ~LessEqQ(slowMA, fastMA) THEN "sell" ELSE "none"

\* RSIStrategy.calculateRSI's loop over i = 1 .. prices.length - 1: the pair
\* <<gains, losses>>
RECURSIVE gainsLosses(_)
gainsLosses(prices) ==
  IF Len(prices) < 2
    THEN <<0, 0>>
    ELSE LET n == Len(prices)
             rest == gainsLosses(SubSeq(prices, 1, n - 1))
             difference == prices[n] - prices[n - 1]
         IN  IF difference >= 0
               THEN <<rest[1] + difference, rest[2]>>
               ELSE <<rest[1], rest[2] - difference>>

\* RSIStrategy.calculateRSI: 100 - 100 / (1 + gains / losses) = 100 gains / (gains + losses)
calculateRSI(prices) ==
  LET gl == gainsLosses(prices)
  IN  IF gl[2] = 0 THEN Whole(100) ELSE [num |-> 100 * gl[1], den |-> gl[1] + gl[2]]

\* RSIStrategy.analyze: "throws", or the signal ("none" for null)
RSIAnalyze(parameters, marketData) ==
  IF validateData(marketData)
    THEN "throws"
    ELSE IF Len(marketData.klines) < parameters.period + 1
           THEN "none"
           ELSE LET rsi == calculateRSI(marketData.klines)
                IN  IF LessEqQ(rsi, Whole(parameters.oversold))
                      THEN "buy"
                      ELSE IF LessEqQ(Whole(parameters.overbought), rsi)
                             THEN "sell" ELSE "none"

\* createStrategy's variants
StrategyKinds == {"ma_cross", "rsi", "grid", "ml_trend", "deep_learning", "multi_coin"}

\* Whether analyze throws on the snapshot.  Every variant but multi_coin
\* starts with validateData; MultiCoinStrategy.analyze never calls it and
\* catches every exception (it returns null).
analyzeThrows(kind, marketData) ==
  IF kind = "multi_coin" THEN FALSE ELSE validateData(marketData)

\* ------------------------------------------------------------ the records

NoBot == [status |-> "absent"]

EmptyPerformance ==
  [startTime |-> FALSE, totalTrades |-> 0, winRate |-> 0, profitLoss |-> 0,
   trades |-> <<>>]

SizeCaps == {2}
StopLosses == {5}
TakeProfits == {0, 10}
MaxPositionsChoices == {1}

Configs ==
  [symbol : {"BTC/USDT"}, maxPositionSize : SizeCaps, stopLoss : StopLosses,
   takeProfit : TakeProfits, maxPositions : MaxPositionsChoices]

\* the bots createBot is called with; the multi-coin branch of the tick never
\* reads takeProfit, so one value is enough there
BotData ==
  {d \in [strategy : Strategies, config : Configs] :
     d.strategy = "multi_coin" => d.config.takeProfit = 10}

Created == {b \in Bots : bots[b] # NoBot}

\* Map<string, position>, in insertion order
posHas(positions, symbol) == \E i \in 1..Len(positions) : positions[i].symbol = symbol
posGet(positions, symbol) ==
  positions[CHOOSE i \in 1..Len(positions) : positions[i].symbol = symbol]
posSet(positions, symbol, position) ==
  LET entry == [symbol |-> symbol, entryPrice |-> position.entryPrice,
                amount |-> position.amount]
  IN  IF posHas(positions, symbol)
        THEN [i \in 1..Len(positions) |->
                IF positions[i].symbol = symbol THEN entry ELSE positions[i]]
        ELSE Append(positions, entry)
posDelete(positions, symbol) ==
  SelectSeq(positions, LAMBDA p : p.symbol # symbol)


\* ------------------------------------------------- store state transformers
\* A handler is a sequence of store writes.  st = [bots, exec, balance] is the
\* part of the state such a sequence goes through; `mode` is only read.

\* getBalance reading the demo ledger whatever the mode is
getBalanceOfDemo(st, currency) == st.balance["demo"][currency]

\* useTradingMode.getBalance: the balance of the CURRENT mode
getBalance(st, currency) == st.balance[mode][currency]

\* updateBalance without the floor
updateBalanceUnclamped(st, currency, amount) ==
  [st EXCEPT !.balance[mode][currency] = @ + amount]

\* useTradingMode.updateBalance: the CURRENT mode's ledger, clamped at zero
updateBalance(st, currency, amount) ==
  [st EXCEPT !.balance[mode][currency] = Max(0, @ + amount)]

\* { ...bot.performance, ...performance } for a Partial<performance>
mergePerformance(performance, partial) ==
  [f \in DOMAIN performance |->
     IF f \in DOMAIN partial THEN partial[f] ELSE performance[f]]

\* useTradingBotStore.updateBotPerformance
updateBotPerformance(st, id, partial) ==
  IF st.bots[id] = NoBot
    THEN st
    ELSE [st EXCEPT !.bots[id].performance = mergePerformance(@, partial)]

\* [trade, ...bot.performance.trades].slice(0, 100)
withTrade(trades, trade) ==
  LET all == <<trade>> \o trades
  IN  SubSeq(all, 1, Min(TradesCap, Len(all)))

\* The sell bookkeeping the executor repeats at its four closing places: the
\* ledger under the executor's captured mode, then updateBotPerformance built
\* from the captured bot object.
executeSell(st, e, symbol, currentPrice, position) ==
  LET x == st.exec[e]
      bot == x.bot
      pnl == (currentPrice - position.entryPrice) * position.amount
      st1 == IF x.tradingMode = "live"
               THEN updateBalance(
                      updateBalance(st, "USDT", currentPrice * position.amount),
                      baseCurrency(symbol), -position.amount)
               ELSE st
  IN  updateBotPerformance(st1, bot.id,
               [totalTrades |-> bot.performance.totalTrades + 1,
                profitLoss |-> bot.performance.profitLoss + pnl,
                winRate |-> calculateWinRate(bot.performance.winRate,
                                             bot.performance.totalTrades, pnl > 0),
                trades |-> withTrade(bot.performance.trades,
                             [type |-> "sell", price |-> currentPrice,
                              amount |-> position.amount, pnl |-> pnl,
                              strategy |-> bot.strategy])])

\* The buy bookkeeping without the test of the mode
executeBuyInAnyMode(st, e, symbol, price, tradeAmount, availableBalance) ==
  LET x == st.exec[e]
      bot == x.bot
      cost == price * tradeAmount
  IN  IF cost <= availableBalance
        THEN LET st1 == updateBalance(updateBalance(st, "USDT", -cost),
                                      baseCurrency(symbol), tradeAmount)
                 st2 == updateBotPerformance(st1, bot.id,
                          [totalTrades |-> bot.performance.totalTrades + 1,
                           trades |-> withTrade(bot.performance.trades,
                                        [type |-> "buy", price |-> price,
                                         amount |-> tradeAmount, pnl |-> 0,
                                         strategy |-> bot.strategy])])
             IN  [st2 EXCEPT !.exec[e].positions =
                    posSet(@, symbol, [entryPrice |-> price, amount |-> tradeAmount])]
        ELSE st

\* The buy bookkeeping (single-symbol and multi-coin): nothing at all happens
\* unless the captured mode is live and the cost fits the balance read before.
executeBuy(st, e, symbol, price, tradeAmount, availableBalance) ==
  LET x == st.exec[e]
      bot == x.bot
      cost == price * tradeAmount
  IN  IF x.tradingMode = "live" /\ cost <= availableBalance
        THEN LET st1 == updateBalance(updateBalance(st, "USDT", -cost),
                                      baseCurrency(symbol), tradeAmount)
                 st2 == updateBotPerformance(st1, bot.id,
                          [totalTrades |-> bot.performance.totalTrades + 1,
                           trades |-> withTrade(bot.performance.trades,
                                        [type |-> "buy", price |-> price,
                                         amount |-> tradeAmount, pnl |-> 0,
                                         strategy |-> bot.strategy])])
             IN  [st2 EXCEPT !.exec[e].positions =
                    posSet(@, symbol, [entryPrice |-> price, amount |-> tradeAmount])]
        ELSE st

\* The cleanup closure's loop over positions.entries(), from entry i on
RECURSIVE liquidate(_, _, _)
liquidate(st, e, i) ==
  LET x == st.exec[e]
  IN  IF i > Len(x.positions)
        THEN st
        ELSE LET position == x.positions[i]
                 currentPrice == x.ws.price
             IN  liquidate(
                   IF currentPrice # 0
                     THEN executeSell(st, e, position.symbol, currentPrice, position)
                     ELSE st,
                   e, i + 1)

\* The closure startStrategyExecutor returns: clearInterval, close every
\* position, positions.clear()
cleanup(st, e) ==
  LET st1 == liquidate([st EXCEPT !.exec[e].interval = FALSE], e, 1)
  IN  [st1 EXCEPT !.exec[e].positions = <<>>]

\* stopBot without its status guard
stopBotUnguarded(st, id) ==
  IF st.bots[id] = NoBot
    THEN st
    ELSE [st EXCEPT !.bots[id].status = "stopped"]

\* stopBot leaving the status error
stopBotMarksError(st, id) ==
  LET bot == st.bots[id]
  IN  IF bot = NoBot \/ bot.status # "running"
        THEN st
        ELSE [st EXCEPT !.bots[id].status = "error", !.bots[id].halted = TRUE]

\* useTradingBotStore.stopBot.  bot is the registry's CURRENT object; its
\* cleanup field is 0 when the object carries no cleanup function.
stopBot(st, id) ==
  LET bot == st.bots[id]
  IN  IF bot = NoBot \/ bot.status # "running"
        THEN st
        ELSE LET st1 == IF bot.cleanup # 0 THEN cleanup(st, bot.cleanup) ELSE st
             IN  [st1 EXCEPT !.bots[id].status = "stopped", !.bots[id].halted = TRUE]


\* ------------------------------------------------------ the strategy executor

\* startStrategyExecutor up to setInterval: the closure's variables.  bot is the
\* object startBot read from the registry BEFORE it set the status; ws and
\* tradingMode are the snapshots getState() returns at this moment.
startStrategyExecutor(bot) ==
  [bot |-> bot,
   strategy |-> [kind |-> bot.strategy,
                 maxPositions |-> bot.config.maxPositions,
                 due |-> TRUE,             \* lastUpdate = 0
                 activeSymbols |-> {}],
   ws |-> [isConnected |-> wsConnected, price |-> wsPrice],
   tradingMode |-> mode,
   positions |-> <<>>,
   spaced |-> FALSE,                       \* lastTradeTime = Date.now()
   consecutiveErrors |-> 0,
   interval |-> TRUE,                      \* the timer is armed
   inflight |-> 0,                         \* ticks suspended at `await analyze`
   highReports |-> 0]                      \* 'stopped due to consecutive errors' reports

\* the tick's guard: ws and bot are the closure's captured objects
tickSkips(x) == ~x.ws.isConnected \/ x.bot.status # "running"

\* the test with the take-profit half left out
stopLossOnly(config, currentPrice, position) ==
  (currentPrice - position.entryPrice) * position.amount * 100
    <= -config.stopLoss * position.entryPrice * position.amount

\* pnlPercentage <= -stopLoss || pnlPercentage >= takeProfit, with
\* pnlPercentage = currentPnl / (entryPrice * amount) * 100 cross-multiplied
stopLossOrTakeProfit(config, currentPrice, position) ==
  LET currentPnl == (currentPrice - position.entryPrice) * position.amount
      basis == position.entryPrice * position.amount
  IN  \/ currentPnl * 100 <= -config.stopLoss * basis
      \/ currentPnl * 100 >= config.takeProfit * basis

\* The single-symbol branch of the tick, from the second analyze's result on
handleSingle(st, e, signal) ==
  LET x == st.exec[e]
      bot == x.bot
      symbol == bot.config.symbol
      currentPrice == x.ws.price
      availableBalance == getBalance(st, "USDT")
      tradeAmount == calculateTradeAmount(bot.config.maxPositionSize, currentPrice,
                                          availableBalance)
      st1 == IF signal # "none" /\ x.spaced
               THEN IF signal = "buy" /\ Len(x.positions) = 0
                       /\ tradeAmount >= MinTradeAmount
                      THEN executeBuy(st, e, symbol, currentPrice, tradeAmount,
                                      availableBalance)
                      ELSE IF signal = "sell" /\ Len(x.positions) # 0
                             THEN [executeSell(st, e, symbol, currentPrice,
                                               posGet(x.positions, symbol))
                                     EXCEPT !.exec[e].positions = posDelete(@, symbol)]
                             ELSE st
               ELSE st
      x1 == st1.exec[e]
  IN  IF Len(x1.positions) # 0
         /\ stopLossOrTakeProfit(bot.config, currentPrice, posGet(x1.positions, symbol))
        THEN [executeSell(st1, e, symbol, currentPrice, posGet(x1.positions, symbol))
                EXCEPT !.exec[e].positions = posDelete(@, symbol),
                       !.exec[e].spaced = FALSE]
        ELSE st1

\* What the single-symbol branch does with the signal (lines 842-911): the
\* trade it acts on, "refused" for a buy the mode or the balance does not
\* allow, "-" if none
signalTrade(st, e, signal) ==
  LET x == st.exec[e]
      availableBalance == getBalance(st, "USDT")
      tradeAmount == calculateTradeAmount(x.bot.config.maxPositionSize, x.ws.price,
                                          availableBalance)
  IN  IF signal = "none" \/ ~x.spaced
        THEN "-"
        ELSE IF signal = "buy" /\ Len(x.positions) = 0 /\ tradeAmount >= MinTradeAmount
               THEN IF x.tradingMode = "live" /\ x.ws.price * tradeAmount <= availableBalance
                      THEN "buy" ELSE "refused"
               ELSE IF signal = "sell" /\ Len(x.positions) # 0 THEN "sell" ELSE "-"

\* Array.prototype.slice(0, n)
sliceTo(seq, n) ==
  IF n >= 0 THEN SubSeq(seq, 1, Min(n, Len(seq)))
            ELSE SubSeq(seq, 1, Max(0, Len(seq) + n))

\* MultiCoinStrategy.analyze after the recommendations arrived: the signal
multiCoinSignal(strategy, recommendations) ==
  LET highConfidenceBuys ==
        SelectSeq(recommendations,
                  LAMBDA r : r.action = "buy" /\ r.symbol \notin strategy.activeSymbols)
      shouldSell ==
        SelectSeq(recommendations,
                  LAMBDA r : r.action = "sell" /\ r.symbol \in strategy.activeSymbols)
  IN  [buy |-> sliceTo(highConfidenceBuys,
                       strategy.maxPositions - Cardinality(strategy.activeSymbols)),
       sell |-> shouldSell]

\* for (const sellRec of signal.sell)
RECURSIVE processSells(_, _, _, _)
processSells(st, e, sell, i) ==
  IF i > Len(sell)
    THEN st
    ELSE LET sellRec == sell[i]
             x == st.exec[e]
         IN  processSells(
               IF posHas(x.positions, sellRec.symbol)
                 THEN [executeSell(st, e, sellRec.symbol, sellRec.price,
                                   posGet(x.positions, sellRec.symbol))
                         EXCEPT !.exec[e].positions = posDelete(@, sellRec.symbol),
                                !.exec[e].strategy.activeSymbols = @ \ {sellRec.symbol}]
                 ELSE st,
               e, sell, i + 1)

\* for (const buyRec of signal.buy)
RECURSIVE processBuys(_, _, _, _)
processBuys(st, e, buy, i) ==
  IF i > Len(buy)
    THEN st
    ELSE LET buyRec == buy[i]
             x == st.exec[e]
             availableBalance == getBalance(st, "USDT")
             tradeAmount == calculateTradeAmount(x.bot.config.maxPositionSize,
                                                 buyRec.price, availableBalance)
             bought == /\ tradeAmount >= MinTradeAmount
                       /\ x.tradingMode = "live"
                       /\ buyRec.price * tradeAmount <= availableBalance
         IN  IF Len(x.positions) >= x.strategy.maxPositions
               THEN st                                       \* break
               ELSE processBuys(
                      IF bought
                        THEN [executeBuy(st, e, buyRec.symbol, buyRec.price,
                                         tradeAmount, availableBalance)
                                EXCEPT !.exec[e].strategy.activeSymbols =
                                         @ \cup {buyRec.symbol}]
                        ELSE st,
                      e, buy, i + 1)

\* The multi-coin branch of the tick
handleMulti(st, e, signal) ==
  LET st1 == processBuys(processSells(st, e, signal.sell, 1), e, signal.buy, 1)
  IN  [st1 EXCEPT !.exec[e].spaced = FALSE]

\* consecutiveErrors = 0 at the end of the try block
resetErrors(st, e) == [st EXCEPT !.exec[e].consecutiveErrors = 0]

\* The tick's catch block
caught(st, e) ==
  LET n == st.exec[e].consecutiveErrors + 1
      st1 == [st EXCEPT !.exec[e].consecutiveErrors = n]
  IN  IF n >= ErrorThreshold
        THEN [stopBot([st1 EXCEPT !.exec[e].interval = FALSE], st1.exec[e].bot.id)
                EXCEPT !.exec[e].highReports = @ + 1]
        ELSE st1


\* ------------------------------------------------------------------ actions

Store == [bots |-> bots, exec |-> exec, balance |-> balance]
Commit(st) == bots' = st.bots /\ exec' = st.exec /\ balance' = st.balance
\* history: the handler that ran, on which bot or executor; `high`: it issued a
\* high-severity report (errorHandler.handleError(..., 'high')); `why`: the
\* pre-flight step that failed, or the trade a tick's signal led to
owner(e) == exec[e].bot.id
Did(op, id) == last' = [op |-> op, id |-> id, pre |-> "-", high |-> FALSE, why |-> "-"]
DidBot(op, b) == last' = [op |-> op, id |-> b, pre |-> "-", high |-> FALSE, why |-> "-"]
DidTick(op, e) == last' = [op |-> op, id |-> e, pre |-> "-", high |-> FALSE, why |-> "-"]
\* the circuit breaker's handler also records the status the registry had before
DidStop(op, id, b) ==
  last' = [op |-> op, id |-> id, pre |-> bots[b].status,
           high |-> (exec[id].consecutiveErrors + 1 >= ErrorThreshold), why |-> "-"]
\* a completed single-symbol tick also records the trade its signal led to
DidTrade(op, e, trade) ==
  last' = [op |-> op, id |-> e, pre |-> "-", high |-> FALSE, why |-> trade]
\* a startBot call that ended with a high-severity report
DidHigh(op, b, why) == last' = [op |-> op, id |-> b, pre |-> "-", high |-> TRUE, why |-> why]

NoCall == [fn |-> "none"]

Idle == [pc |-> "idle", bot |-> NoBot,
         ws |-> [isConnected |-> FALSE, price |-> 0]]

Init ==
  /\ bots = [b \in Bots |-> NoBot]
  /\ exec = <<>>
  /\ training = [b \in Bots |-> 0]
  /\ mode = "demo"
  /\ balance = [m \in Modes |-> [c \in Currencies |->
                  IF m = "demo" /\ c = "USDT" THEN DEFAULT_DEMO_BALANCE ELSE 0]]
  /\ wsConnected = FALSE
  /\ wsPrice = 0
  /\ starting = [b \in Bots |-> Idle]
  /\ switches = 0
  /\ execCap = MaxExec
  /\ call = NoCall
  /\ last = [op |-> "init", id |-> 0, pre |-> "-", high |-> FALSE, why |-> "-"]

\* createBot: a new registry entry, status stopped, empty performance
CreateBot(b, strategy, config) ==
  /\ bots[b] = NoBot
  /\ \A c \in Bots : c < b => bots[c] # NoBot
  /\ bots' = [bots EXCEPT ![b] =
       [id |-> b, status |-> "stopped", strategy |-> strategy, config |-> config,
        performance |-> EmptyPerformance, cleanup |-> 0,
        halted |-> FALSE]]           \* history: stopBot stopped it since its last start
  /\ DidBot("createBot", b)
  /\ UNCHANGED <<exec, training, mode, switches, execCap, call, balance, wsConnected, wsPrice, starting>>

\* riskManagement.checkOrderRisk: the limits and the daily loss are the
\* environment's (withinLimits); a missing stop-loss is always rejected
checkOrderRisk(order, withinLimits) == withinLimits /\ order.stopLoss # 0

\* startBot's catch block without the status update
startFailedKeepsStatus(b, why) ==
  /\ starting' = [starting EXCEPT ![b] = Idle]
  /\ DidHigh("startBot_failed", b, why)
  /\ UNCHANGED <<bots, exec, training, mode, switches, execCap, call, balance, wsConnected, wsPrice>>

\* startBot's catch block: high-severity report, status error
startFailed(b, why) ==
  /\ bots' = [bots EXCEPT ![b].status = "error"]
  /\ starting' = [starting EXCEPT ![b] = Idle]
  /\ DidHigh("startBot_failed", b, why)
  /\ UNCHANGED <<exec, training, mode, switches, execCap, call, balance, wsConnected, wsPrice>>

\* startBot from the risk check on.  bot is the object read at the call, ws the
\* snapshot taken at the call; set() copies the registry's current object.
startTail(b, bot, ws, withinLimits, strategyOk) ==
  IF /\ checkOrderRisk([amount |-> bot.config.maxPositionSize, price |-> ws.price,
                        stopLoss |-> bot.config.stopLoss], withinLimits)
     /\ strategyOk
    THEN /\ Len(exec) < execCap
         /\ bots' = [bots EXCEPT ![b].status = "running",
                                 ![b].performance.startTime = TRUE,
                                 ![b].halted = FALSE]
         /\ exec' = Append(exec,
              [startStrategyExecutor(bot) EXCEPT !.bot.cleanup = Len(exec) + 1])
         /\ starting' = [starting EXCEPT ![b] = Idle]
         /\ DidBot("startBot_started", b)
         /\ UNCHANGED <<training, mode, switches, execCap, call, balance, wsConnected, wsPrice>>
    ELSE startFailed(b,
           IF checkOrderRisk([amount |-> bot.config.maxPositionSize, price |-> ws.price,
                              stopLoss |-> bot.config.stopLoss], withinLimits)
             THEN "strategy" ELSE "risk")

\* startBot's two wait loops,
\*   while (!ws.isConnected && wsRetries < 5) { await 1000 ms; wsRetries++ }
\*   while (!ws.marketData.price && retries < 10) { await 1000 ms; retries++ }
\* read nothing but the snapshot ws and their own counter, so every iteration
\* sees what the first one saw.  The model keeps each loop as one suspension:
\* the call is parked with its snapshot (pc "connect" or "price") and resumes
\* when the loop is over, with the loop's exit test on the same snapshot.

\* startBot from the test after the price loop on
startPriceStage(b, bot, ws, withinLimits, strategyOk) ==
  IF ws.price = 0
    THEN startFailed(b, "price")
    ELSE startTail(b, bot, ws, withinLimits, strategyOk)

\* startBot parks in a wait loop
startWaits(b, pc, bot, ws) ==
  /\ Len(exec) <= MaxWaitingExec
  /\ starting' = [starting EXCEPT ![b] = [pc |-> pc, bot |-> bot, ws |-> ws]]
  /\ DidBot("startBot_waiting", b)
  /\ UNCHANGED <<bots, exec, training, mode, switches, execCap, call, balance, wsConnected, wsPrice>>

\* startBot(id), the call
StartBot(b) ==
  /\ starting[b].pc = "idle"
  /\ \E confirmed, withinLimits, strategyOk \in BOOLEAN :
       LET bot == IF bots[b] = NoBot THEN NoBot ELSE [bots[b] EXCEPT !.halted = FALSE]
           ws == [isConnected |-> wsConnected, price |-> wsPrice]
       IN  IF bot = NoBot \/ (mode = "live" /\ ~confirmed)
             THEN /\ IF bot = NoBot THEN DidHigh("startBot_returned", b, "-")
                                    ELSE DidBot("startBot_returned", b)
                  /\ UNCHANGED <<bots, exec, training, mode, switches, execCap, call, balance, wsConnected,
                                 wsPrice, starting>>
             ELSE IF ~ws.isConnected
                    THEN startWaits(b, "connect", bot, ws)
                    ELSE IF ws.price = 0
                           THEN startWaits(b, "price", bot, ws)
                           ELSE startPriceStage(b, bot, ws, withinLimits, strategyOk)

\* startBot resumed when its wait loop is over
StartBotResume(b) ==
  /\ starting[b].pc # "idle"
  /\ \E withinLimits, strategyOk \in BOOLEAN :
       LET p == starting[b]
       IN  IF p.pc = "connect"
             THEN IF ~p.ws.isConnected
                    THEN startFailed(b, "connect")
                    ELSE IF p.ws.price = 0
                           THEN startWaits(b, "price", p.bot, p.ws)
                           ELSE startPriceStage(b, p.bot, p.ws, withinLimits, strategyOk)
             ELSE startPriceStage(b, p.bot, p.ws, withinLimits, strategyOk)

\* stopBot(id), called from outside
StopBot(b) ==
  /\ Commit(stopBot(Store, b))
  /\ DidBot(IF bots[b] # NoBot /\ bots[b].status = "running"
              THEN "stopBot" ELSE "stopBot_ignored", b)
  /\ UNCHANGED <<training, mode, switches, execCap, call, wsConnected, wsPrice, starting>>

\* startTraining(id) up to its 15 s timeout
StartTraining(b) ==
  /\ training[b] < MaxTraining
  /\ IF bots[b] = NoBot \/ bots[b].status = "training"
       THEN /\ DidBot("startTraining_returned", b)
            /\ UNCHANGED <<bots, training>>
       ELSE /\ bots' = [bots EXCEPT ![b].status = "training"]
            /\ training' = [training EXCEPT ![b] = @ + 1]
            /\ DidBot("startTraining", b)
  /\ UNCHANGED <<exec, mode, switches, execCap, call, balance, wsConnected, wsPrice, starting>>

\* startTraining(id) after the timeout
TrainingDone(b) ==
  /\ training[b] > 0
  /\ bots' = [bots EXCEPT ![b].status = "stopped"]
  /\ training' = [training EXCEPT ![b] = @ - 1]
  /\ DidBot("trainingDone", b)
  /\ UNCHANGED <<exec, mode, switches, execCap, call, balance, wsConnected, wsPrice, starting>>

\* The setInterval callback fires: guard, snapshot, analyze, and for a strategy
\* whose analyze does no I/O the rest of the tick.  `throws`: an exception is
\* raised inside the try block.
Tick(e) ==
  /\ e \in 1..Len(exec)
  /\ exec[e].interval
  /\ LET x == exec[e]
     IN  IF tickSkips(x)
           THEN /\ DidTick("tick_skipped", e)
                /\ UNCHANGED <<bots, exec, balance>>
           ELSE IF x.strategy.kind = "multi_coin"
                  THEN IF ~x.strategy.due
                         THEN /\ DidTick("tick_nosignal", e)
                              /\ UNCHANGED <<bots, exec, balance>>
                         ELSE /\ x.inflight < MaxInFlight
                              /\ exec' = [exec EXCEPT ![e].inflight = @ + 1]
                              /\ DidTick("tick_suspended", e)
                              /\ UNCHANGED <<bots, balance>>
                  ELSE \E throws \in BOOLEAN, first, second \in Signals :
                         IF throws
                           THEN Commit(caught(Store, e)) /\ DidStop("tick_threw", e, owner(e))
                           ELSE IF first = "none"
                                  THEN /\ DidTick("tick_nosignal", e)
                                       /\ UNCHANGED <<bots, exec, balance>>
                                  ELSE /\ Commit(resetErrors(handleSingle(Store, e, second), e))
                                       /\ DidTrade("tick_done", e,
                                                   signalTrade(Store, e, second))
  /\ UNCHANGED <<training, mode, switches, execCap, call, wsConnected, wsPrice, starting>>

Recommendations ==
  {<<>>} \cup
  {<<r>> : r \in [symbol : Symbols, action : {"buy", "sell"}, price : Prices]} \cup
  {<<r1, r2>> : r1 \in [symbol : {"BTC/USDT"}, action : {"buy", "sell"}, price : Prices],
                r2 \in [symbol : {"ETH/USDT"}, action : {"buy", "sell"}, price : Prices]}

\* A tick suspended in MultiCoinStrategy.analyze resumes: the recommendations
\* arrived (or failed: analyze catches and returns null), then the rest of the tick
TickResume(e) ==
  /\ e \in 1..Len(exec)
  /\ exec[e].inflight > 0
  /\ \E failed, throws \in BOOLEAN, recommendations \in Recommendations :
       LET st0 == [Store EXCEPT !.exec[e].inflight = @ - 1]
           st1 == [st0 EXCEPT !.exec[e].strategy.due = FALSE]
           signal == multiCoinSignal(st1.exec[e].strategy, recommendations)
       IN  IF failed
             THEN Commit(st0) /\ DidTick("resume_nosignal", e)
             ELSE IF throws
                    THEN Commit(caught(st1, e)) /\ DidStop("resume_threw", e, owner(e))
                    ELSE /\ Commit(resetErrors(handleMulti(st1, e, signal), e))
                         /\ DidTick("resume_done", e)
  /\ UNCHANGED <<training, mode, switches, execCap, call, wsConnected, wsPrice, starting>>

\* useTradingMode.setMode; live needs an active account and the confirmation
SetMode(m) ==
  /\ m # mode => switches < MaxSwitches
  /\ \E allowed \in BOOLEAN :
       mode' = IF m = "live" /\ ~allowed THEN mode ELSE m
  /\ switches' = IF mode' # mode THEN switches + 1 ELSE switches
  /\ Did("env", 0)
  /\ UNCHANGED <<bots, exec, training, balance, wsConnected, wsPrice, starting, execCap, call>>

\* useWebSocketStore: socket.onopen, onclose/onerror/disconnect, a 24hrTicker message
WsOpen ==
  /\ wsConnected' = TRUE
  /\ Did("env", 0)
  /\ UNCHANGED <<bots, exec, training, mode, switches, execCap, call, balance, wsPrice, starting>>

WsClose ==
  /\ wsConnected' = FALSE
  /\ Did("env", 0)
  /\ UNCHANGED <<bots, exec, training, mode, switches, execCap, call, balance, wsPrice, starting>>

WsTicker(p) ==
  /\ wsConnected
  /\ wsPrice' = p
  /\ Did("env", 0)
  /\ UNCHANGED <<bots, exec, training, mode, switches, execCap, call, balance, wsConnected, starting>>

\* More than 60000 ms pass: Date.now() - lastTradeTime > 60000 in every executor
MinuteElapses ==
  /\ exec' = [e \in 1..Len(exec) |-> [exec[e] EXCEPT !.spaced = TRUE]]
  /\ Did("env", 0)
  /\ UNCHANGED <<bots, training, mode, switches, execCap, call, balance, wsConnected, wsPrice, starting>>

\* updateInterval passes: every multi-coin strategy is due again
IntervalElapses ==
  /\ exec' = [e \in 1..Len(exec) |->
                [exec[e] EXCEPT !.spaced = TRUE, !.strategy.due = TRUE]]
  /\ Did("env", 0)
  /\ UNCHANGED <<bots, training, mode, switches, execCap, call, balance, wsConnected, wsPrice, starting>>

Next ==
  \/ \E b \in Bots, d \in BotData : CreateBot(b, d.strategy, d.config)
  \/ \E b \in Bots : StartBot(b)
  \/ \E b \in Bots : StartBotResume(b)
  \/ \E b \in Bots : StopBot(b)
  \/ \E b \in Bots : StartTraining(b)
  \/ \E b \in Bots : TrainingDone(b)
  \/ \E e \in Execs : Tick(e)
  \/ \E e \in Execs : TickResume(e)
  \/ \E m \in Modes : SetMode(m)
  \/ WsOpen
  \/ WsClose
  \/ \E p \in Prices : WsTicker(p)
  \/ MinuteElapses
  \/ IntervalElapses

Spec == Init /\ [][Next]_vars

\* The same program with room for a third executor, and a narrower
\* environment: one single-symbol bot with a positive take-profit, no stopBot,
\* no training, the socket stays open.
InitWide ==
  /\ bots = [b \in Bots |-> NoBot]
  /\ exec = <<>>
  /\ training = [b \in Bots |-> 0]
  /\ mode = "demo"
  /\ balance = [m \in Modes |-> [c \in Currencies |->
                  IF m = "demo" /\ c = "USDT" THEN DEFAULT_DEMO_BALANCE ELSE 0]]
  /\ wsConnected = FALSE
  /\ wsPrice = 0
  /\ starting = [b \in Bots |-> Idle]
  /\ switches = 0
  /\ execCap = MaxExecWide
  /\ call = NoCall
  /\ last = [op |-> "init", id |-> 0, pre |-> "-", high |-> FALSE, why |-> "-"]

NextWide ==
  \/ \E b \in Bots, config \in {c \in Configs : c.takeProfit # 0} :
       CreateBot(b, "ml_trend", config)
  \/ \E b \in Bots : StartBot(b)
  \/ \E b \in Bots : StartBotResume(b)
  \/ \E e \in 1..MaxExecWide : Tick(e)
  \/ \E m \in Modes : SetMode(m)
  \/ WsOpen
  \/ \E p \in Prices : WsTicker(p)
  \/ MinuteElapses

SpecWide == InitWide /\ [][NextWide]_vars

\* Room for a third executor again, for one multi-coin bot: no stopBot, no
\* training, the socket stays open, every strategy is due once.
NextWideMulti ==
  \/ \E b \in Bots, config \in {c \in Configs : c.takeProfit # 0} :
       CreateBot(b, "multi_coin", config)
  \/ \E b \in Bots : StartBot(b)
  \/ \E b \in Bots : StartBotResume(b)
  \/ \E e \in 1..MaxExecWide : Tick(e)
  \/ \E e \in 1..MaxExecWide : TickResume(e)
  \/ \E m \in Modes : SetMode(m)
  \/ WsOpen
  \/ \E p \in Prices : WsTicker(p)

SpecWideMulti == InitWide /\ [][NextWideMulti]_vars


\* The ledger alone: updateBalance called from outside the bots (the trading
\* form) with any currency and delta, and setMode.
Deltas == {-DEFAULT_DEMO_BALANCE, -2, -1, 1, 2}
LedgerValues == (0..MaxLedger) \cup {DEFAULT_DEMO_BALANCE}

ManualUpdate(currency, amount) ==
  /\ Max(0, balance[mode][currency] + amount) \in LedgerValues
  /\ Commit(updateBalance(Store, currency, amount))
  /\ last' = [op |-> "updateBalance", id |-> amount, pre |-> "-", high |-> FALSE,
              why |-> currency]
  /\ UNCHANGED <<training, mode, switches, execCap, call, wsConnected, wsPrice, starting>>

NextLedger ==
  \/ \E currency \in Currencies, amount \in Deltas : ManualUpdate(currency, amount)
  \/ \E m \in Modes : SetMode(m)

SpecLedger == Init /\ [][NextLedger]_vars

\* The pure functions, each called once with arguments drawn from the sets
\* below; the stores stay in their initial state.
TradeAmountCalls ==
  {[fn |-> "calculateTradeAmount", args |-> <<m, p, a>>, done |-> FALSE, result |-> Whole(0)] :
     m \in {1, 2, 3, 5, 1000}, p \in {1, 2, 3, 50}, a \in {1, 2, 3, 4, 7, 1000, 100000}}

\* winRate in hundredths of a percent: createBot's 0 and other stored values
WinRateCalls ==
  {[fn |-> "calculateWinRate", args |-> <<w, n, isWin>>, done |-> FALSE, result |-> 0] :
     w \in {0, 5000, 5001, 10000}, n \in 0..1, isWin \in BOOLEAN}

\* snapshots that pass validateData
Closes == {1, 2, 4}
KlineSeqs ==
  UNION {[1..n -> Closes] : n \in 0..MaxKlines} \cup {<<1, 2, 3, 4, 5>>}
ValidData ==
  {[hasPrice |-> TRUE, price |-> 2, isArray |-> TRUE, klines |-> k] : k \in KlineSeqs}

MACrossCalls ==
  {[fn |-> "MACrossStrategy.analyze", args |-> <<parameters, marketData>>,
    done |-> FALSE, result |-> "none"] :
     parameters \in [fastPeriod : 1..MaxPeriod, slowPeriod : 1..MaxPeriod],
     marketData \in ValidData}

\* getDefaultParameters' thresholds, periods 1 and 2
RSICalls ==
  {[fn |-> "RSIStrategy.analyze", args |-> <<parameters, marketData>>,
    done |-> FALSE, result |-> "none"] :
     parameters \in [period : 1..2, overbought : {70}, oversold : {30}],
     marketData \in ValidData}

\* any snapshot: price undefined, negative, zero or positive; klines an array or not
AnyData ==
  {d \in [hasPrice : BOOLEAN, price : {-1, 0, 2}, isArray : BOOLEAN, klines : {<<>>}] :
     ~d.hasPrice => d.price = 0}

AnalyzeCalls ==
  {[fn |-> "analyze", args |-> <<kind, marketData>>, done |-> FALSE, result |-> "returns"] :
     kind \in StrategyKinds, marketData \in AnyData}

PureCalls ==
  TradeAmountCalls \cup WinRateCalls \cup MACrossCalls \cup RSICalls \cup AnalyzeCalls

InitPure ==
  /\ bots = [b \in Bots |-> NoBot]
  /\ exec = <<>>
  /\ training = [b \in Bots |-> 0]
  /\ mode = "demo"
  /\ balance = [m \in Modes |-> [c \in Currencies |->
                  IF m = "demo" /\ c = "USDT" THEN DEFAULT_DEMO_BALANCE ELSE 0]]
  /\ wsConnected = FALSE
  /\ wsPrice = 0
  /\ starting = [b \in Bots |-> Idle]
  /\ switches = 0
  /\ execCap = MaxExec
  /\ call \in PureCalls
  /\ last = [op |-> "init", id |-> 0, pre |-> "-", high |-> FALSE, why |-> "-"]

Returns(result) ==
  /\ ~call.done
  /\ call' = [call EXCEPT !.done = TRUE, !.result = result]
  /\ UNCHANGED <<bots, exec, training, mode, balance, wsConnected, wsPrice, starting,
                 switches, execCap, last>>

CallTradeAmount ==
  /\ call.fn = "calculateTradeAmount"
  /\ Returns(calculateTradeAmountExact(call.args[1], call.args[2], call.args[3]))

CallWinRate ==
  /\ call.fn = "calculateWinRate"
  /\ Returns(calculateWinRate(call.args[1], call.args[2], call.args[3]))

\* the next closed trade of the same bot: the stored winRate and the trade
\* count go into the next call (lines 891-896)
NextClosedTrade(isWin) ==
  /\ call.fn = "calculateWinRate"
  /\ call.done
  /\ call.args[2] + 1 < MaxClosed
  /\ call' = [call EXCEPT !.args = <<call.result, call.args[2] + 1, isWin>>,
                          !.done = FALSE, !.result = 0]
  /\ UNCHANGED <<bots, exec, training, mode, balance, wsConnected, wsPrice, starting,
                 switches, execCap, last>>

CallMACross ==
  /\ call.fn = "MACrossStrategy.analyze"
  /\ Returns(MACrossAnalyze(call.args[1], call.args[2]))

CallRSI ==
  /\ call.fn = "RSIStrategy.analyze"
  /\ Returns(RSIAnalyze(call.args[1], call.args[2]))

CallAnalyze ==
  /\ call.fn = "analyze"
  /\ Returns(IF analyzeThrows(call.args[1], call.args[2]) THEN "throws" ELSE "returns")

NextPure ==
  \/ CallTradeAmount
  \/ CallAnalyze
  \/ CallRSI
  \/ CallMACross
  \/ CallWinRate
  \/ \E isWin \in BOOLEAN : NextClosedTrade(isWin)

SpecPure == InitPure /\ [][NextPure]_vars

\* ------------------------------------------------------------------- claims

executorsOf(b) == {e \in 1..Len(exec) : owner(e) = b}
activeTimers(b) == {e \in executorsOf(b) : exec[e].interval}

TimerOps == {"tick_skipped", "tick_nosignal", "tick_suspended", "tick_threw", "tick_done"}
ResumeOps == {"resume_nosignal", "resume_threw", "resume_done"}

\* the step is the timer of executor e firing / a suspended tick of e resuming
timerFires(e) == last'.id = e /\ last'.op \in TimerOps
tickRuns(e) == last'.id = e /\ last'.op \in (TimerOps \cup ResumeOps)

\* the handler that just ran was a tick of e whose exception tripped the breaker
breakerTripped(e) ==
  /\ last.id = e
  /\ last.op \in {"tick_threw", "resume_threw"}
  /\ exec[e].consecutiveErrors >= ErrorThreshold

\* C1: a bot whose status is running has exactly one active tick timer.
C1_RunningHasExactlyOneTimer ==
  \A b \in Created :
    bots[b].status = "running" => Cardinality(activeTimers(b)) = 1

\* C2: a bot whose status is stopped or error has no active tick timer.
C2_StoppedOrErrorHasNoTimer ==
  \A b \in Created :
    bots[b].status \in {"stopped", "error"} => activeTimers(b) = {}

\* C3: when stopBot has just returned for a bot that was running (called from
\* outside or by the circuit breaker), no executor of the bot holds a position.
C3_NoPositionAfterStop ==
  \A b \in Created :
    (\/ last.op = "stopBot" /\ last.id = b
     \/ \E e \in executorsOf(b) : breakerTripped(e) /\ last.pre = "running")
    => \A e \in executorsOf(b) : exec[e].positions = <<>>

\* C4: stopping a running bot closes every open position with one sell trade
\* record at the last known price and one ledger credit of price x amount.
C4_StopLiquidatesEveryPosition ==
  [][\A b \in Bots : \A e \in 1..Len(exec) :
       (/\ last'.op = "stopBot" /\ last'.id = b
        /\ owner(e) = b
        /\ Len(exec[e].positions) = 1
        /\ \A f \in executorsOf(b) \ {e} : exec[f].positions = <<>>)
       => LET position == exec[e].positions[1]
              price == exec[e].ws.price
          IN  /\ exec'[e].positions = <<>>
              /\ Len(bots'[b].performance.trades) > 0
              /\ bots'[b].performance.trades[1].type = "sell"
              /\ bots'[b].performance.trades[1].price = price
              /\ bots'[b].performance.trades[1].amount = position.amount
              /\ \E m \in Modes :
                   balance'[m]["USDT"] = balance[m]["USDT"] + price * position.amount]_vars

\* C5: once stopBot has stopped a bot, no tick of that bot (fired or resumed)
\* changes a balance, a position or a performance field until it is started again.
C5_NoTickEffectAfterStop ==
  [][\A e \in 1..Len(exec) :
       (tickRuns(e) /\ bots[owner(e)].halted)
       => /\ balance' = balance
          /\ exec'[e].positions = exec[e].positions
          /\ bots'[owner(e)].performance = bots[owner(e)].performance]_vars

\* C6: stopBot on a bot that is not running changes nothing.
C6_StopOnNonRunningIsNoOp ==
  [][\A b \in Bots :
       (last'.op = "stopBot_ignored" /\ last'.id = b)
       => UNCHANGED <<bots, exec, balance, training, mode, starting>>]_vars

\* C6 witness: stopBot was called on a stopped bot whose executor holds a position
C6_Witness ==
  /\ last.op = "stopBot_ignored"
  /\ bots[last.id] # NoBot
  /\ bots[last.id].status = "stopped"
  /\ \E e \in executorsOf(last.id) : exec[e].positions # <<>>

C8_NoTickAfterBreaker ==
  [][\A e \in 1..Len(exec) :
       timerFires(e)
       => ~\E t \in executorsOf(owner(e)) :
             /\ exec[t].highReports > 0
             /\ \A f \in executorsOf(owner(e)) : f <= t]_vars

\* C9: an executor emits the 'stopped due to consecutive errors' report at most once.
C9_OneBreakerReportPerRun ==
  \A e \in 1..Len(exec) : exec[e].highReports <= 1

\* C10: every tick that was not skipped and ends without an exception leaves the
\* consecutive-error counter at zero.
C10_CleanTickResetsCounter ==
  [][\A e \in 1..Len(exec) :
       (last'.id = e /\ last'.op \in {"tick_nosignal", "tick_done",
                                      "resume_nosignal", "resume_done"})
       => exec'[e].consecutiveErrors = 0]_vars

\* C11: a startBot call on an existing bot that ends in a pre-flight failure
\* (no connection, no price, risk gate, strategy creation) leaves the status
\* error, has issued a high-severity report and has created no executor.
C11_PreflightFailureSetsError ==
  [][\A b \in Bots :
       (last'.op = "startBot_failed" /\ last'.id = b)
       => /\ last'.why \in {"connect", "price", "risk", "strategy"}
          /\ bots'[b].status = "error"
          /\ last'.high
          /\ exec' = exec]_vars

\* C11 witness: the risk gate rejected the start of a bot that was stopped
C11_Witness ==
  /\ last.op = "startBot_failed"
  /\ last.why = "risk"
  /\ bots[last.id].status = "error"
  /\ executorsOf(last.id) = {}

\* C12: a startBot call that waited for the connection, and resumes when the
\* market data is connected and has a price, ends with the bot running,
\* startTime set and a new executor, unless the risk gate or the strategy
\* creation fails.
C12_StartSucceedsOnceConnected ==
  [][\A b \in Bots :
       (/\ starting[b].pc = "connect"
        /\ wsConnected /\ wsPrice # 0
        /\ last'.id = b
        /\ last'.op \in {"startBot_failed", "startBot_started", "startBot_waiting"}
        /\ last'.why \notin {"risk", "strategy"})
       => /\ bots'[b].status = "running"
          /\ bots'[b].performance.startTime
          /\ Len(exec') = Len(exec) + 1]_vars

\* C13: the executor created by a startBot call on a stopped bot does not skip
\* a tick that fires while the market data is connected and the registry
\* status of the bot is running.
C13_TickRunsAfterStart ==
  [][\A e \in 1..Len(exec) :
       (/\ timerFires(e)
        /\ exec[e].bot.status = "stopped"
        /\ executorsOf(owner(e)) = {e}
        /\ wsConnected
        /\ bots[owner(e)].status = "running")
       => last'.op # "tick_skipped"]_vars

\* C14: a tick that fires while the market data is disconnected, or while the
\* registry status of the bot is not running, changes no balance, no position,
\* no performance field and not the error counter.
C14_TickSkippedWhenDisconnectedOrNotRunning ==
  [][\A e \in 1..Len(exec) :
       (timerFires(e) /\ (~wsConnected \/ bots[owner(e)].status # "running"))
       => /\ balance' = balance
          /\ exec'[e].positions = exec[e].positions
          /\ bots'[owner(e)].performance = bots[owner(e)].performance
          /\ exec'[e].consecutiveErrors = exec[e].consecutiveErrors]_vars

\* C15: at most one tick of a bot is suspended in strategy.analyze at any time.
C15_OneTickInProgress ==
  \A b \in Created :
    /\ \A e \in executorsOf(b) : exec[e].inflight <= 1
    /\ \A e, f \in executorsOf(b) :
         (exec[e].inflight > 0 /\ exec[f].inflight > 0) => e = f

\* unrealized PnL of a position at a price, in percent of its cost, is at most
\* -stopLoss or at least takeProfit
thresholdMet(config, price, position) ==
  LET pnl100 == (price - position.entryPrice) * position.amount * 100
      cost == position.entryPrice * position.amount
  IN  pnl100 <= -config.stopLoss * cost \/ pnl100 >= config.takeProfit * cost

C17_SignalTradesSpaced ==
  [][\A e \in 1..Len(exec) :
       (/\ last.op = "tick_done" /\ last.id = e /\ last.why \in {"buy", "sell"}
        /\ last'.op = "tick_done" /\ last'.id = e)
       => last'.why \notin {"buy", "sell"}]_vars

\* the open positions a bot holds, over all its executors
held(b) ==
  {p \in (1..Len(exec)) \X (1..Cardinality(Symbols)) :
     owner(p[1]) = b /\ p[2] <= Len(exec[p[1]].positions)}

\* C18: a single-symbol bot holds at most one open position; a multi-coin bot
\* holds at most maxPositions open positions, at most one per symbol.
C18_PositionCounts ==
  \A b \in Created :
    IF bots[b].strategy = "multi_coin"
      THEN /\ Cardinality(held(b)) <= bots[b].config.maxPositions
           /\ \A p, q \in held(b) :
                exec[p[1]].positions[p[2]].symbol = exec[q[1]].positions[q[2]].symbol
                => p = q
      ELSE Cardinality(held(b)) <= 1

\* C19: every balance of every currency in both modes stays at or above zero,
\* and an updateBalance call sets the current mode's balance of its currency to
\* max(0, old + delta) and leaves every other balance as it was.
C19_BalanceNeverNegative ==
  [][/\ \A m \in Modes, c \in Currencies : balance'[m][c] >= 0
     /\ last'.op = "updateBalance"
        => \A m \in Modes, c \in Currencies :
             balance'[m][c] =
               IF m = mode /\ c = last'.why
                 THEN (IF balance[m][c] + last'.id >= 0
                         THEN balance[m][c] + last'.id ELSE 0)
                 ELSE balance[m][c]]_vars

\* C19 witness: a delta below minus the balance was applied to the live BTC
\* balance (at most MaxLedger before), which is now zero
C19_Witness ==
  /\ last.op = "updateBalance"
  /\ last.id = -DEFAULT_DEMO_BALANCE
  /\ last.why = "BTC"
  /\ mode = "live"
  /\ balance["live"]["BTC"] = 0
  /\ balance["live"]["USDT"] > 0

\* C20: a tick of a bot (fired or resumed) changes only the ledger of the
\* trading mode its executor read when it was started; after a setMode the
\* other mode's ledger is never changed by the bot.
C20_TickChangesOnlyItsModeLedger ==
  [][\A e \in 1..Len(exec) :
       tickRuns(e)
       => \A m \in Modes \ {exec[e].tradingMode} : balance'[m] = balance[m]]_vars

\* C21: a tick that executes exactly one trade (a signal-driven buy or sell of
\* a single-symbol bot, with no stop-loss/take-profit close after it) puts one
\* new record in front of performance.trades, keeps the earlier records behind
\* it (up to the cap) and raises totalTrades by one.
C21_TradesAppendOnly ==
  [][\A e \in 1..Len(exec) :
       (/\ last'.op = "tick_done" /\ last'.id = e
        /\ last'.why \in {"buy", "sell"}
        /\ Len(exec'[e].positions) # Len(exec[e].positions))
       => LET old == bots[owner(e)].performance
              new == bots'[owner(e)].performance
          IN  /\ Len(new.trades) >= 1
              /\ new.trades[1].type = last'.why
              /\ Tail(new.trades) = sliceTo(old.trades, TradesCap - 1)
              /\ new.totalTrades = old.totalTrades + 1]_vars

\* C22: startTraining, at its call and at the end of the training, never
\* changes the status of a bot that is running.
C22_TrainingLeavesRunningBot ==
  [][\A b \in Bots :
       (/\ last'.id = b
        /\ last'.op \in {"startTraining", "startTraining_returned", "trainingDone"}
        /\ bots[b].status = "running")
       => bots'[b].status = "running"]_vars

\* the whole number floor(m / p): the k with k * p <= m < (k + 1) * p
floorOf(m, p) == CHOOSE k \in 0..m : k * p <= m /\ m < (k + 1) * p

\* C23: calculateTradeAmount returns the smaller of availableBalance / price
\* and the cap, the cap being 1 when maxPositionSize < price and
\* floor(maxPositionSize / price) otherwise; (1000, 50) gives 20 when the
\* balance allows it.
C23_TradeAmount ==
  (call.fn = "calculateTradeAmount" /\ call.done)
  => LET m == call.args[1]
         p == call.args[2]
         a == call.args[3]
         cap == IF m < p THEN 1 ELSE floorOf(m, p)
         r == call.result
     IN  /\ r.num <= cap * r.den
         /\ r.num * p <= a * r.den
         /\ (r.num = cap * r.den \/ r.num * p = a * r.den)
         /\ (m = 1000 /\ p = 50 /\ a >= 1000) => EqualQ(r, Whole(20))

\* C23 witness: (1000, 50) with a balance that allows it returned 20
C23_Witness ==
  /\ call.fn = "calculateTradeAmount" /\ call.done
  /\ call.args = <<1000, 50, 100000>>
  /\ call.result = Whole(20)

\* C24: calculateWinRate returns (oldRate x oldTotalTrades + (100 if isWin
\* else 0)) / (oldTotalTrades + 1) rounded to the nearest hundredth (either
\* neighbour when the quotient lies half-way), (50, 1, win) gives 75, and a
\* rate within 0..100 stays within 0..100 over every chain of closed trades.
\* Rates are in hundredths of a percent.
C24_WinRate ==
  call.fn = "calculateWinRate"
  => /\ call.args[1] \in 0..10000
     /\ call.done
        => LET num == call.args[1] * call.args[2] + (IF call.args[3] THEN 10000 ELSE 0)
               den == call.args[2] + 1
               r == call.result
           IN  /\ 2 * (r * den - num) <= den
               /\ 2 * (num - r * den) <= den
               /\ r \in 0..10000
               /\ call.args = <<5000, 1, TRUE>> => r = 7500

\* C24 witness: the third closed trade of a chain, a loss after two wins,
\* brought the rate from 100 to 66.67
C24_Witness ==
  /\ call.fn = "calculateWinRate" /\ call.done
  /\ call.args = <<10000, 2, FALSE>>
  /\ call.result = 6667

\* the simple average of the last k closes (of all of them when fewer exist)
simpleAverage(closes, k) ==
  LET n == IF k < Len(closes) THEN k ELSE Len(closes)
  IN  [num |-> sum(SubSeq(closes, Len(closes) - n + 1, Len(closes))), den |-> n]

\* C25: MACrossStrategy.analyze returns no signal when fewer than slowPeriod
\* klines exist, and otherwise buy, sell or no signal as the simple average of
\* the last fastPeriod closes is greater than, smaller than or equal to that of
\* the last slowPeriod closes, for every pair of periods; closes [1,2,3,4,5]
\* with periods 2 and 4 give buy.
C25_MACrossSignal ==
  (call.fn = "MACrossStrategy.analyze" /\ call.done)
  => LET closes == call.args[2].klines
         fast == simpleAverage(closes, call.args[1].fastPeriod)
         slow == simpleAverage(closes, call.args[1].slowPeriod)
     IN  call.result =
           IF Len(closes) < call.args[1].slowPeriod
             THEN "none"
             ELSE IF fast.num * slow.den > slow.num * fast.den
                    THEN "buy"
                    ELSE IF fast.num * slow.den < slow.num * fast.den
                           THEN "sell" ELSE "none"

\* C26: RSIStrategy.analyze returns the signal of the RSI of the most recent
\* period + 1 closes (100 when that window has no loss): buy if RSI <=
\* oversold, else sell if RSI >= overbought, else none; no signal when fewer
\* than period + 1 klines exist; closes before the window do not matter.
C26_RSIWindow ==
  (call.fn = "RSIStrategy.analyze" /\ call.done)
  => LET parameters == call.args[1]
         closes == call.args[2].klines
     IN  call.result =
           IF Len(closes) < parameters.period + 1
             THEN "none"
             ELSE LET window == SubSeq(closes, Len(closes) - parameters.period, Len(closes))
                      gl == gainsLosses(window)
                      rsi == IF gl[2] = 0 THEN [num |-> 100, den |-> 1]
                                          ELSE [num |-> 100 * gl[1], den |-> gl[1] + gl[2]]
                  IN  IF rsi.num <= parameters.oversold * rsi.den
                        THEN "buy"
                        ELSE IF rsi.num >= parameters.overbought * rsi.den
                               THEN "sell" ELSE "none"

\* C27: analyze of every strategy variant fails whenever the snapshot's price
\* is missing, zero or negative, or its klines is not a sequence.
C27_AnalyzeRejectsInvalidData ==
  (call.fn = "analyze" /\ call.done)
  => LET marketData == call.args[2]
     IN  (~marketData.hasPrice \/ marketData.price <= 0 \/ ~marketData.isArray)
         => call.result = "throws"

\* C28: a tick of a multi-coin bot (fired or resumed) executes no buy, that is
\* no credit of the base currency, for a symbol in which the bot holds an open
\* position when the tick runs.
C28_NoBuyOfHeldSymbol ==
  [][\A e \in 1..Len(exec) :
       (tickRuns(e) /\ exec[e].strategy.kind = "multi_coin")
       => \A s \in Symbols :
            (\E f \in executorsOf(owner(e)) : posHas(exec[f].positions, s))
            => balance'[mode][baseCurrency(s)] <= balance[mode][baseCurrency(s)]]_vars

\* what the positions from entry i on that `old` does not hold have cost
RECURSIVE costOfNew(_, _, _)
costOfNew(old, new, i) ==
  IF i > Len(new)
    THEN 0
    ELSE (IF posHas(old, new[i].symbol) THEN 0 ELSE new[i].entryPrice * new[i].amount)
         + costOfNew(old, new, i + 1)

=============================================================================
